---- MODULE Spec2Model ----
(***************************************************************************)
(* life-rs: a terminal Game of Life.  The model covers src/main.rs:        *)
(*   - ModuloSignedExt::modulo on i16 (floored modulo used for wrapping),  *)
(*   - Simulation::new, Simulation::run (the main loop and its command     *)
(*     drain), Simulation::tick (one generation step),                     *)
(*   - the listener thread of main, which sends SimulationEvents over the  *)
(*     mpsc channel.                                                       *)
(* Terminal output is modelled by the sequence of events an operation      *)
(* issues (cursor-addressed character writes and flushes) and by the       *)
(* glyph last written at every terminal position.                          *)
(***************************************************************************)
EXTENDS Integers, Sequences, FiniteSets, TLC

VARIABLES
    term_width,   \* Simulation.term_width  (u16)
    term_height,  \* Simulation.term_height (u16)
    cells,        \* Simulation.cells: [row -> [col -> Cell]], 0-based
    running,      \* Simulation.running
    input_rx,     \* the mpsc channel: commands sent and not yet received
    pc,           \* position of the engine thread in Simulation::run
    lpc,          \* position of the listener thread spawned by main
    out,          \* output events issued by the engine's latest operation
    screen,       \* glyph last written at each terminal position <<x, y>>
    hist,         \* latest operations applied directly to a grid (ghost)
    build,        \* "debug" (overflow checks on) or "release" (wrapping)
    probe,        \* latest neighbour index computation (ghost)
    stdout_buf    \* the program's writes held in the buffer of stdout

vars == <<term_width, term_height, cells, running, input_rx, pc, lpc, out,
          screen, hist, build, probe, stdout_buf>>

----------------------------------------------------------------------------
(* Bounds of the model.                                                    *)

\* commands the channel holds at most before the listener waits
MaxQueue == 2
\* operations the ghost history keeps
MaxHist == 2

----------------------------------------------------------------------------
(* enum CellState, struct Cell                                             *)

ALIVE == "ALIVE"
DEAD == "DEAD"
CellState == {ALIVE, DEAD}

Cell(old, new) == [old_state |-> old, state |-> new]

\* the glyph a write shows for a state
Glyph(s) == IF s = ALIVE THEN "o" ELSE " "

(* print!("{}{}", termion::cursor::Goto(x, y), ch) and stdout().flush()    *)
WriteEv(x, y, ch) == [kind |-> "write", x |-> x, y |-> y, ch |-> ch]
FlushEv == [kind |-> "flush", x |-> 0, y |-> 0, ch |-> ""]

----------------------------------------------------------------------------
(* 16-bit integers.  `as i16` wraps; +, - overflow panics in a debug build *)
(* and wraps in a release build; % is the truncated remainder and panics   *)
(* on MIN % -1 in every build.                                             *)

I16Min == -32768
I16Max == 32767
U16Max == 65535

InI16(v) == I16Min <= v /\ v <= I16Max

\* two's complement wrap of an integer to i16 (u16 as i16, usize as i16)
AsI16(v) == ((v + 32768) % 65536) - 32768

Abs(v) == IF v < 0 THEN -v ELSE v

\* Rust's % on signed integers: the result has the sign of the dividend
Rem(a, n) == IF a >= 0 THEN a % Abs(n) ELSE -((-a) % Abs(n))

\* an i16 computation either panics or yields a value
Panic == [ok |-> FALSE, val |-> 0]
Val(v) == [ok |-> TRUE, val |-> v]

\* a + b on i16 under the build's overflow rule
AddI16(b, x, y) ==
    IF InI16(x + y) THEN Val(x + y)
    ELSE IF b = "debug" THEN Panic ELSE Val(AsI16(x + y))

\* a % n on i16
RemI16(x, n) ==
    IF n = 0 \/ (x = I16Min /\ n = -1) THEN Panic ELSE Val(Rem(x, n))

(* ModuloSignedExt::modulo for i16: (self % n + n) % n                     *)
moduloB(b, self, n) ==
    LET \* (r1 + n) % n, for the value r1 of self % n
        AddRem(r1) ==
            CHOOSE res \in {IF ~s.ok THEN Panic ELSE RemI16(s.val, n) :
                               s \in {AddI16(b, r1, n)}} : TRUE
    IN  CHOOSE res \in {IF ~r1.ok THEN Panic ELSE AddRem(r1.val) :
                           r1 \in {RemI16(self, n)}} : TRUE

\* modulo where no overflow occurs (the value both builds agree on)
modulo(self, n) == moduloB("release", self, n).val

----------------------------------------------------------------------------
(* Simulation::tick                                                        *)

Rows(h) == 0 .. (h - 1)
Cols(w) == 0 .. (w - 1)

\* a step that leaves old_state as the previous step set it
Snapshot_skipped(c, h, w) == c

\* tick, lines 91-95: copy every cell's state into old_state
Snapshot(c, h, w) ==
    [i \in Rows(h) |-> [j \in Cols(w) |-> Cell(c[i][j].state, c[i][j].state)]]

\* 1 if the cell at [r][k] was ALIVE in the snapshot, else 0
OldAlive(c, r, k) == IF c[r][k].old_state = ALIVE THEN 1 ELSE 0

\* the same read taken from the live field, which the loop is overwriting
LiveAlive(c, r, k) == IF c[r][k].state = ALIVE THEN 1 ELSE 0

\* 1 if [r][k] lies in the grid and was ALIVE in the snapshot, else 0
OldAliveInside(c, r, k, h, w) ==
    IF r \in Rows(h) /\ k \in Cols(w) THEN OldAlive(c, r, k) ELSE 0

\* a count with dead edges: positions past an edge are not wrapped
neighbors_dead_edges(c, i, j, h, w) ==
    OldAliveInside(c, i - 1, j - 1, h, w) + OldAliveInside(c, i - 1, j, h, w)
    + OldAliveInside(c, i - 1, j + 1, h, w) + OldAliveInside(c, i, j - 1, h, w)
    + OldAliveInside(c, i, j + 1, h, w) + OldAliveInside(c, i + 1, j - 1, h, w)
    + OldAliveInside(c, i + 1, j, h, w) + OldAliveInside(c, i + 1, j + 1, h, w)

\* a count taken from the live state instead of the snapshot
neighbors_live(c, i, j, h, w) ==
    LET si == AsI16(i)
        sj == AsI16(j)
        s_term_height == AsI16(h)
        s_term_width  == AsI16(w)
        up    == modulo(si - 1, s_term_height)
        down  == modulo(si + 1, s_term_height)
        left  == modulo(sj - 1, s_term_width)
        right == modulo(sj + 1, s_term_width)
    IN  LiveAlive(c, up, left) + LiveAlive(c, up, j) + LiveAlive(c, up, right)
        + LiveAlive(c, i, left) + LiveAlive(c, i, right)
        + LiveAlive(c, down, left) + LiveAlive(c, down, j)
        + LiveAlive(c, down, right)

\* tick, lines 99-128: the eight reads of old_state around cell [i][j]
neighbors(c, i, j, h, w) ==
    LET si == AsI16(i)
        sj == AsI16(j)
        s_term_height == AsI16(h)
        s_term_width  == AsI16(w)
    IN  \* each wrapped index is computed once and bound to its value
        CHOOSE n \in
            {OldAlive(c, up, left) + OldAlive(c, up, j) + OldAlive(c, up, right)
             + OldAlive(c, i, left) + OldAlive(c, i, right)
             + OldAlive(c, down, left) + OldAlive(c, down, j)
             + OldAlive(c, down, right) :
                up    \in {modulo(si - 1, s_term_height)},
                down  \in {modulo(si + 1, s_term_height)},
                left  \in {modulo(sj - 1, s_term_width)},
                right \in {modulo(sj + 1, s_term_width)}} : TRUE

SetState(c, i, j, s) == [c EXCEPT ![i][j].state = s]

\* a loop body that repaints every cell it visits, changed or not
TickCell_repaint(c, o, i, j, h, w) ==
    LET n == neighbors(c, i, j, h, w)
        s == c[i][j].state
        t == IF s = ALIVE /\ (n < 2 \/ n > 3) THEN DEAD
             ELSE IF s = DEAD /\ n = 3 THEN ALIVE ELSE s
    IN  [cells |-> SetState(c, i, j, t),
         out   |-> Append(o, WriteEv(j + 1, i + 1, Glyph(t)))]

\* a loop body that addresses the cursor as Goto(row, column)
TickCell_swapped(c, o, i, j, h, w) ==
    LET n == neighbors(c, i, j, h, w)
        s == c[i][j].state
    IN  IF s = ALIVE /\ (n < 2 \/ n > 3)
        THEN [cells |-> SetState(c, i, j, DEAD),
              out   |-> Append(o, WriteEv(i + 1, j + 1, " "))]
        ELSE IF s = DEAD /\ n = 3
        THEN [cells |-> SetState(c, i, j, ALIVE),
              out   |-> Append(o, WriteEv(i + 1, j + 1, "o"))]
        ELSE [cells |-> c, out |-> o]

\* a loop body without the underpopulation arm
TickCell_no_underpopulation(c, o, i, j, h, w) ==
    LET n == neighbors(c, i, j, h, w)
        s == c[i][j].state
    IN  IF s = ALIVE /\ n > 3
        THEN [cells |-> SetState(c, i, j, DEAD),
              out   |-> Append(o, WriteEv(j + 1, i + 1, " "))]
        ELSE IF s = DEAD /\ n = 3
        THEN [cells |-> SetState(c, i, j, ALIVE),
              out   |-> Append(o, WriteEv(j + 1, i + 1, "o"))]
        ELSE [cells |-> c, out |-> o]

\* tick, lines 98-139: the loop body for cell [i][j]
TickCell(c, o, i, j, h, w) ==
    LET s == c[i][j].state
        \* lines 130-139, for the count n of lines 99-128
        Rule(n) ==
            IF s = ALIVE /\ n < 2
            THEN [cells |-> SetState(c, i, j, DEAD),
                  out   |-> Append(o, WriteEv(j + 1, i + 1, " "))]
            ELSE IF s = ALIVE /\ n > 3
            THEN [cells |-> SetState(c, i, j, DEAD),
                  out   |-> Append(o, WriteEv(j + 1, i + 1, " "))]
            ELSE IF s = DEAD /\ n = 3
            THEN [cells |-> SetState(c, i, j, ALIVE),
                  out   |-> Append(o, WriteEv(j + 1, i + 1, "o"))]
            ELSE [cells |-> c, out |-> o]
    IN  CHOOSE res \in {Rule(n) : n \in {neighbors(c, i, j, h, w)}} : TRUE

\* tick, lines 97-141: the nested loops, rows outermost; k = i * w + j
RECURSIVE TickLoop(_, _, _, _, _)
TickLoop(c, o, k, h, w) ==
    IF k >= h * w THEN [cells |-> c, out |-> o]
    ELSE \* the body of iteration k is evaluated before iteration k + 1
         CHOOSE res \in {TickLoop(r.cells, r.out, k + 1, h, w) :
                            r \in {TickCell(c, o, k \div w, k % w, h, w)}} :
             TRUE

\* a step that flushes before the loop has issued its writes
tick_flush_first(c, h, w) ==
    LET r == TickLoop(Snapshot(c, h, w), <<>>, 0, h, w)
    IN  [cells |-> r.cells, out |-> <<FlushEv>> \o r.out]

(* Simulation::tick: snapshot, loop, one flush                             *)
tick(c, h, w) ==
    CHOOSE res \in
        {[cells |-> r.cells, out |-> Append(r.out, FlushEv)] :
            r \in {TickLoop(s, <<>>, 0, h, w) : s \in {Snapshot(c, h, w)}}} :
        TRUE

----------------------------------------------------------------------------
(* The terminal: the glyph each position shows after a sequence of events  *)

SetMax(S) == CHOOSE m \in S : \A k \in S : k <= m

Paint(scr, evs) ==
    [p \in DOMAIN scr |->
        LET hits == {k \in 1 .. Len(evs) :
                        evs[k].kind = "write" /\ <<evs[k].x, evs[k].y>> = p}
        IN  IF hits = {} THEN scr[p] ELSE evs[SetMax(hits)].ch]

\* termion::clear::All (main, line 163): every position blank
ClearScreen(w, h) == [p \in (1 .. w) \X (1 .. h) |-> " "]

----------------------------------------------------------------------------
(* Simulation::run, lines 76-84: the DRAW(x, y) arm.  y - 1 and x - 1 are  *)
(* u16 subtractions and the results index the Vecs: a coordinate outside   *)
(* [1, W] x [1, H] panics (overflow check or index out of bounds).         *)

InRange(x, y, h, w) == 1 <= x /\ x <= w /\ 1 <= y /\ y <= h

\* a toggle that wraps coordinates outside the grid onto the torus
draw_wrapped(c, x, y, h, w) ==
    LET i == (y - 1) % h
        j == (x - 1) % w
    IN  IF c[i][j].state = DEAD
        THEN [ok |-> TRUE, cells |-> SetState(c, i, j, ALIVE),
              out |-> <<WriteEv(x, y, "o")>>]
        ELSE [ok |-> TRUE, cells |-> SetState(c, i, j, DEAD),
              out |-> <<WriteEv(x, y, " ")>>]

\* a toggle that only ever sets the cell
draw_set_only(c, x, y, h, w) ==
    IF ~InRange(x, y, h, w) THEN [ok |-> FALSE, cells |-> c, out |-> <<>>]
    ELSE [ok |-> TRUE, cells |-> SetState(c, y - 1, x - 1, ALIVE),
          out |-> <<WriteEv(x, y, "o")>>]

draw(c, x, y, h, w) ==
    IF ~InRange(x, y, h, w) THEN [ok |-> FALSE, cells |-> c, out |-> <<>>]
    ELSE IF c[y - 1][x - 1].state = DEAD
    THEN [ok |-> TRUE, cells |-> SetState(c, y - 1, x - 1, ALIVE),
          out |-> <<WriteEv(x, y, "o")>>]
    ELSE [ok |-> TRUE, cells |-> SetState(c, y - 1, x - 1, DEAD),
          out |-> <<WriteEv(x, y, " ")>>]

----------------------------------------------------------------------------
(* Operations applied directly to a grid.  hist keeps, for each of the     *)
(* latest MaxHist operations, the grid it started from and what it issued. *)

HistEntry(op, x, y, before, evs) ==
    [op |-> op, x |-> x, y |-> y, before |-> before, out |-> evs]

Keep(h) == IF Len(h) > MaxHist THEN Tail(h) ELSE h

\* the grid operation k of hist left behind
After(k) == IF k = Len(hist) THEN cells ELSE hist[k + 1].before

\* the grids a paused engine reaches by toggles from the all-Dead grid,
\* with the screen the toggles' writes leave
GridInit(dims) ==
    /\ \E d \in dims : term_width = d[1] /\ term_height = d[2]
    /\ cells \in [Rows(term_height) ->
                    [Cols(term_width) -> {Cell(DEAD, DEAD), Cell(DEAD, ALIVE)}]]
    /\ screen = [p \in (1 .. term_width) \X (1 .. term_height) |->
                    Glyph(cells[p[2] - 1][p[1] - 1].state)]
    /\ running = FALSE
    /\ input_rx = <<>>
    /\ pc = "top"
    /\ lpc = "listening"
    /\ out = <<>>
    /\ hist = <<>>
    /\ build = "release"
    /\ probe = <<>>
    /\ stdout_buf = <<>>

\* one generation step on the current grid
TickOp ==
    \E r \in {tick(cells, term_height, term_width)} :
        /\ cells' = r.cells
        /\ out' = r.out
        /\ screen' = Paint(screen, r.out)
        /\ hist' = Keep(Append(hist, HistEntry("tick", 0, 0, cells, r.out)))
        /\ UNCHANGED <<term_width, term_height, running, input_rx, pc, lpc,
                       build, probe, stdout_buf>>

\* one ToggleCellAt(x, y) on the current grid
DrawOp ==
    \E x \in 1 .. term_width, y \in 1 .. term_height :
        \E r \in {draw(cells, x, y, term_height, term_width)} :
            /\ r.ok
            /\ cells' = r.cells
            /\ out' = r.out
            /\ screen' = Paint(screen, r.out)
            /\ hist' = Keep(Append(hist, HistEntry("draw", x, y, cells, r.out)))
            /\ UNCHANGED <<term_width, term_height, running, input_rx, pc,
                           lpc, build, probe, stdout_buf>>

\* grid sizes of the generation-step specification: every size up to 3 x 3
\* (the degenerate tori included) and the two 12-cell sizes
TickDims == ((1 .. 3) \X (1 .. 3)) \cup {<<4, 3>>, <<3, 4>>}

InitTick == GridInit(TickDims)
NextTick == TickOp
SpecTick == InitTick /\ [][NextTick]_vars

----------------------------------------------------------------------------
(* The Life rule as the specification states it                            *)

Offsets == ({-1, 0, 1} \X {-1, 0, 1}) \ {<<0, 0>>}

\* Alive cells among the 8 toroidal neighbour positions of (i, j) in grid g
ToroidalCount(g, i, j, h, w) ==
    Cardinality({d \in Offsets : g[(i + d[1]) % h][(j + d[2]) % w].state = ALIVE})

LifeRule(s, n) ==
    IF s = ALIVE /\ (n < 2 \/ n > 3) THEN DEAD
    ELSE IF s = DEAD /\ n = 3 THEN ALIVE
    ELSE s

TickEntries == {k \in 1 .. Len(hist) : hist[k].op = "tick"}

\* C1: after a generation step every cell holds the Life rule applied to its
\* own pre-step state and the pre-step Alive count of its 8 toroidal
\* neighbour positions; no value updated during the step is used.
C1_TickAppliesLifeRule ==
    \A k \in TickEntries :
        \A i \in Rows(term_height), j \in Cols(term_width) :
            After(k)[i][j].state =
                LifeRule(hist[k].before[i][j].state,
                         ToroidalCount(hist[k].before, i, j,
                                       term_height, term_width))

\* a step on a 4-wide grid in which a cell dies, a cell is born and an Alive
\* cell survives
C1_Witness ==
    /\ term_width = 4
    /\ \E k \in TickEntries :
        /\ \E i \in Rows(term_height), j \in Cols(term_width) :
              hist[k].before[i][j].state = ALIVE /\ After(k)[i][j].state = DEAD
        /\ \E i \in Rows(term_height), j \in Cols(term_width) :
              hist[k].before[i][j].state = DEAD /\ After(k)[i][j].state = ALIVE
        /\ \E i \in Rows(term_height), j \in Cols(term_width) :
              hist[k].before[i][j].state = ALIVE /\ After(k)[i][j].state = ALIVE

WritesOf(evs) == {n \in 1 .. Len(evs) : evs[n].kind = "write"}
FlushesOf(evs) == {n \in 1 .. Len(evs) : evs[n].kind = "flush"}

\* the cells whose state differs between grids g1 and g2
Changed(g1, g2) ==
    {p \in Rows(term_height) \X Cols(term_width) :
        g1[p[1]][p[2]].state # g2[p[1]][p[2]].state}

\* C3: a generation step issues as many writes as cells changed: each changed
\* cell [i][j] gets exactly one write, at (j+1, i+1), showing its new state,
\* and an unchanged cell gets none.
C3_TickWritesExactlyTheChanges ==
    \A k \in TickEntries :
        LET evs == hist[k].out
            ch  == Changed(hist[k].before, After(k))
        IN  /\ Cardinality(WritesOf(evs)) = Cardinality(ch)
            /\ \A i \in Rows(term_height), j \in Cols(term_width) :
                LET at == {n \in WritesOf(evs) :
                              evs[n].x = j + 1 /\ evs[n].y = i + 1}
                IN  IF <<i, j>> \in ch
                    THEN /\ Cardinality(at) = 1
                         /\ \A n \in at :
                              evs[n].ch = Glyph(After(k)[i][j].state)
                    ELSE at = {}

\* a step on a 4 x 3 grid that writes an 'o' and a ' ' and leaves an Alive
\* cell unwritten
C3_Witness ==
    /\ term_width = 4 /\ term_height = 3
    /\ \E k \in TickEntries :
        LET evs == hist[k].out
        IN  /\ \E n \in WritesOf(evs) : evs[n].ch = "o"
            /\ \E n \in WritesOf(evs) : evs[n].ch = " "
            /\ \E i \in Rows(term_height), j \in Cols(term_width) :
                  /\ After(k)[i][j].state = ALIVE
                  /\ <<i, j>> \notin Changed(hist[k].before, After(k))

\* C10: a generation step flushes exactly once, after every write of the
\* step, also when the step changes no cell.
C10_TickFlushesOnceAtEnd ==
    \A k \in TickEntries :
        LET evs == hist[k].out
        IN  /\ Cardinality(FlushesOf(evs)) = 1
            /\ evs[Len(evs)].kind = "flush"
            /\ \A n \in WritesOf(evs) : \A f \in FlushesOf(evs) : n < f

\* two successive steps: one that issued several writes before its flush,
\* then one that changed nothing and still flushed
C10_Witness ==
    /\ Len(hist) = 2
    /\ hist[1].op = "tick" /\ hist[2].op = "tick"
    /\ Cardinality(WritesOf(hist[1].out)) >= 2
    /\ hist[2].out = <<FlushEv>>

----------------------------------------------------------------------------
(* Still life and oscillator                                               *)

AliveSet(g) ==
    {p \in Rows(term_height) \X Cols(term_width) : g[p[1]][p[2]].state = ALIVE}

\* the grid of a paused engine after toggling exactly the cells of one of
\* the patterns pats[<<w, h>>] on a w x h terminal
PatternInit(dims, pats) ==
    /\ \E d \in dims : term_width = d[1] /\ term_height = d[2]
    /\ \E alive \in pats[<<term_width, term_height>>] :
          cells = [i \in Rows(term_height) |-> [j \in Cols(term_width) |->
                      Cell(DEAD, IF <<i, j>> \in alive THEN ALIVE ELSE DEAD)]]
    /\ screen = [p \in (1 .. term_width) \X (1 .. term_height) |->
                    Glyph(cells[p[2] - 1][p[1] - 1].state)]
    /\ running = FALSE
    /\ input_rx = <<>>
    /\ pc = "top"
    /\ lpc = "listening"
    /\ out = <<>>
    /\ hist = <<>>
    /\ build = "release"
    /\ probe = <<>>
    /\ stdout_buf = <<>>

\* the 2 x 2 block whose top-left cell is (r, c), wrapped at the edges
Block(r, c, h, w) ==
    {<<r, c>>, <<r, (c + 1) % w>>, <<(r + 1) % h, c>>,
     <<(r + 1) % h, (c + 1) % w>>}
Blocks(h, w) == {Block(r, c, h, w) : r \in Rows(h), c \in Cols(w)}

BlockDims == (4 .. 5) \X (4 .. 5)
InitBlock == PatternInit(BlockDims, [d \in BlockDims |-> Blocks(d[2], d[1])])
NextBlock == TickOp
SpecBlock == InitBlock /\ [][NextBlock]_vars

\* C7: on a grid with H, W >= 4 whose only Alive cells are a 2 x 2 block
\* (wrapped positions included) every generation step leaves the grid as it
\* was and issues no write.
C7_BlockIsStill ==
    /\ AliveSet(cells) \in Blocks(term_height, term_width)
    /\ \A k \in TickEntries :
        /\ AliveSet(After(k)) = AliveSet(hist[k].before)
        /\ WritesOf(hist[k].out) = {}

\* two steps taken on the block that straddles all four edges of a 4 x 4 grid
C7_Witness ==
    /\ term_width = 4 /\ term_height = 4
    /\ Len(hist) = 2
    /\ hist[1].op = "tick" /\ hist[2].op = "tick"
    /\ AliveSet(cells) = {<<3, 3>>, <<3, 0>>, <<0, 3>>, <<0, 0>>}

\* the 3-cell lines centred on (r, c), wrapped at the edges
Horizontal(r, c, h, w) == {<<r, (c - 1) % w>>, <<r, c>>, <<r, (c + 1) % w>>}
Vertical(r, c, h, w) == {<<(r - 1) % h, c>>, <<r, c>>, <<(r + 1) % h, c>>}
Blinkers(h, w) == {Horizontal(r, c, h, w) : r \in Rows(h), c \in Cols(w)}

BlinkerDims == (5 .. 6) \X (5 .. 6)
InitBlinker ==
    PatternInit(BlinkerDims, [d \in BlinkerDims |-> Blinkers(d[2], d[1])])
NextBlinker == TickOp
SpecBlinker == InitBlinker /\ [][NextBlinker]_vars

\* C8: on a grid of at least 5 x 5 holding only the horizontal blinker
\* (r,c-1),(r,c),(r,c+1), one step yields exactly the vertical line
\* (r-1,c),(r,c),(r+1,c) and the next step the horizontal line again.
C8_BlinkerHasPeriodTwo ==
    \A k \in TickEntries :
        \A r \in Rows(term_height), c \in Cols(term_width) :
            /\ AliveSet(hist[k].before) = Horizontal(r, c, term_height, term_width)
                => AliveSet(After(k)) = Vertical(r, c, term_height, term_width)
            /\ (k > 1 /\ AliveSet(hist[k - 1].before)
                            = Horizontal(r, c, term_height, term_width))
                => AliveSet(After(k)) = Horizontal(r, c, term_height, term_width)

\* a blinker centred on the corner cell of a 5 x 5 grid, back to horizontal
\* after two steps
C8_Witness ==
    /\ term_width = 5 /\ term_height = 5
    /\ Len(hist) = 2
    /\ AliveSet(hist[1].before) = Horizontal(0, 0, 5, 5)
    /\ AliveSet(hist[2].before) = Vertical(0, 0, 5, 5)
    /\ AliveSet(cells) = Horizontal(0, 0, 5, 5)

----------------------------------------------------------------------------
(* ToggleCellAt applied to any grid                                        *)

ToggleDims == {<<1, 1>>, <<2, 2>>, <<3, 2>>, <<2, 3>>}
InitToggle == GridInit(ToggleDims)
NextToggle == DrawOp
SpecToggle == InitToggle /\ [][NextToggle]_vars

\* grid sizes of the specification that mixes steps and toggles
OpsDims == {<<2, 2>>, <<3, 1>>}
InitOps == GridInit(OpsDims)
NextOps == TickOp \/ DrawOp
SpecOps == InitOps /\ [][NextOps]_vars

\* C6: ToggleCellAt(x, y) applied twice in a row restores cell [y-1][x-1],
\* leaves every other cell as it was, and issues exactly two writes at
\* (x, y) with opposite glyphs, the first 'o' iff the cell was Dead.
C6_ToggleTwiceRestores ==
    \A k \in 1 .. (Len(hist) - 1) :
        (/\ hist[k].op = "draw" /\ hist[k + 1].op = "draw"
         /\ hist[k].x = hist[k + 1].x /\ hist[k].y = hist[k + 1].y)
        => LET x == hist[k].x
               y == hist[k].y
               was == hist[k].before[y - 1][x - 1].state
               evs == hist[k].out \o hist[k + 1].out
           IN  /\ After(k + 1) = hist[k].before
               /\ evs = <<WriteEv(x, y, IF was = DEAD THEN "o" ELSE " "),
                          WriteEv(x, y, IF was = DEAD THEN " " ELSE "o")>>

\* cell [0][2] of a 3 x 2 grid toggled off and on again, another cell Alive
C6_Witness ==
    /\ term_width = 3 /\ term_height = 2
    /\ Len(hist) = 2
    /\ hist[1].op = "draw" /\ hist[2].op = "draw"
    /\ hist[1].x = 3 /\ hist[1].y = 1 /\ hist[2].x = 3 /\ hist[2].y = 1
    /\ hist[1].before[0][2].state = ALIVE
    /\ cells[0][2].state = ALIVE
    /\ cells[1][0].state = ALIVE

----------------------------------------------------------------------------
(* The neighbour index computation of tick, lines 101-128, on its own:     *)
(*   (si - 1).modulo(s_term_height) as usize, and the like for +1 and for  *)
(* columns, with si = i as i16 and s_term_height = self.term_height as i16.*)

\* `as usize` of an i16: a negative value becomes 2^64 - |v|, beyond the
\* length of every Vec; it is represented here by 2^30 - |v|
AsUsize(v) == IF v < 0 THEN 1073741824 + v ELSE v

\* the index tick computes for position idx + d along a dimension of size dim
NeighbourIndex(b, idx, d, dim) ==
    LET s == AsI16(idx)
        n == AsI16(dim)
        a == AddI16(b, s, d)
    IN  IF ~a.ok THEN Panic
        ELSE LET m == moduloB(b, a.val, n)
             IN  IF ~m.ok THEN Panic ELSE Val(AsUsize(m.val))

\* terminal sizes probed: small ones, a common one, and the sizes around
\* the powers of two that matter to 16-bit arithmetic
ProbeDims == {1, 2, 3, 80, 16384, 16385, 32767, 32768, U16Max}

\* cell indices probed along a dimension of size dim
ProbeIdx(dim) ==
    {0, 1, dim \div 2, dim - 3, dim - 2, dim - 1, I16Max, I16Max + 1}
        \cap (0 .. (dim - 1))

\* Simulation::new, lines 45-63, for any terminal size; the grid itself is
\* left out, only its dimensions matter to the index computation
InitModulo ==
    /\ term_width \in ProbeDims
    /\ term_height \in ProbeDims
    /\ build \in {"debug", "release"}
    /\ cells = <<>>
    /\ screen = <<>>
    /\ running = FALSE
    /\ input_rx = <<>>
    /\ pc = "top"
    /\ lpc = "listening"
    /\ out = <<>>
    /\ hist = <<>>
    /\ probe = <<>>
    /\ stdout_buf = <<>>

\* the four wrapped indices tick computes for cell (i, j)
ComputeIndices ==
    \E i \in ProbeIdx(term_height), j \in ProbeIdx(term_width) :
        /\ probe' = <<[i |-> i, j |-> j,
                       up    |-> NeighbourIndex(build, i, -1, term_height),
                       down  |-> NeighbourIndex(build, i, 1, term_height),
                       left  |-> NeighbourIndex(build, j, -1, term_width),
                       right |-> NeighbourIndex(build, j, 1, term_width)]>>
        /\ UNCHANGED <<term_width, term_height, cells, running, input_rx, pc,
                       lpc, out, screen, hist, build, stdout_buf>>

NextModulo == ComputeIndices
SpecModulo == InitModulo /\ [][NextModulo]_vars

IndexOk(r, dim) == r.ok /\ r.val \in 0 .. (dim - 1)

\* C4: for every 16-bit terminal size and every cell, each neighbour row and
\* column index tick computes is produced without overflow and lies in
\* 0..H-1 / 0..W-1; index -1 maps to H-1 / W-1 and index H / W maps to 0.
C4_NeighbourIndicesInRange ==
    \A n \in 1 .. Len(probe) :
        LET p == probe[n]
        IN  /\ IndexOk(p.up, term_height) /\ IndexOk(p.down, term_height)
            /\ IndexOk(p.left, term_width) /\ IndexOk(p.right, term_width)
            /\ p.i = 0 => p.up.val = term_height - 1
            /\ p.i = term_height - 1 => p.down.val = 0
            /\ p.j = 0 => p.left.val = term_width - 1
            /\ p.j = term_width - 1 => p.right.val = 0

\* the same statement for the sizes up to 16384, where it holds
C4_InRangeUpTo16384 ==
    (term_width <= 16384 /\ term_height <= 16384) => C4_NeighbourIndicesInRange

----------------------------------------------------------------------------
(* The program: main, Simulation::new, Simulation::run and the listener    *)
(* thread.  Both threads stop when the process exits, that is once run has *)
(* returned or the engine thread has panicked.  The engine is at "top"     *)
(* (the head of the loop body, line 68), at "drain" (inside the for over   *)
(* try_iter, line 72), "done" (run has returned) or "panicked".  The       *)
(* listener is "listening" (blocked on stdin.events()),                    *)
(* at "flush" (line 193), "stopped" (after the break of line 187) or       *)
(* "ended" (its event stream is over).  print! on the engine thread and    *)
(* stdout.flush() on either thread act on the one buffer of the process's  *)
(* stdout: stdout_buf holds the writes printed and not yet flushed.        *)

\* enum SimulationEvent
QUIT == [type |-> "QUIT", x |-> 0, y |-> 0]
PLAYPAUSE == [type |-> "PLAYPAUSE", x |-> 0, y |-> 0]
DRAW(x, y) == [type |-> "DRAW", x |-> x, y |-> y]

\* terminal sizes of the program specification
EngineDims == {<<3, 1>>}

\* mouse positions the terminal reports: every position of the grid, and two
\* outside it (a column past the right edge, row 0)
MousePositions(w, h) ==
    ((1 .. w) \X (1 .. h)) \cup {<<w + 1, 1>>, <<1, 0>>}

(* main, lines 159-168, and Simulation::new                                *)
\* the state Simulation::new and main leave behind on a terminal of one of
\* the sizes dims
InitOn(dims) ==
    /\ \E d \in dims : term_width = d[1] /\ term_height = d[2]
    /\ cells = [i \in Rows(term_height) |->
                   [j \in Cols(term_width) |-> Cell(DEAD, DEAD)]]
    /\ running = FALSE
    /\ input_rx = <<>>
    /\ pc = "top"
    /\ lpc = "listening"
    /\ out = <<>>
    /\ screen = ClearScreen(term_width, term_height)
    /\ hist = <<>>
    /\ build = "release"
    /\ probe = <<>>
    /\ stdout_buf = <<>>

Init == InitOn(EngineDims)

\* terminal size of the specifications with fairness and with a generation
\* step in three parts: 2 columns, 1 row
FairDims == {<<2, 1>>}

InitFair == InitOn(FairDims)

\* lines 68-70 with the test of running left out
RunTick_unguarded ==
    /\ pc = "top"
    /\ \E r \in {tick(cells, term_height, term_width)} :
        /\ cells' = r.cells
        /\ out' = r.out
        /\ screen' = Paint(screen, r.out)
    /\ stdout_buf' = <<>>
    /\ pc' = "drain"
    /\ UNCHANGED <<term_width, term_height, running, input_rx, lpc, hist,
                   build, probe>>

\* run, lines 68-70: running, so one generation step
RunTick ==
    /\ pc = "top"
    /\ running
    /\ \E r \in {tick(cells, term_height, term_width)} :
        /\ cells' = r.cells
        /\ out' = r.out
        /\ screen' = Paint(screen, r.out)
    /\ stdout_buf' = <<>>
    /\ pc' = "drain"
    /\ UNCHANGED <<term_width, term_height, running, input_rx, lpc, hist,
                   build, probe>>

\* run, line 68: paused, so straight on to the drain
RunSkip ==
    /\ pc = "top"
    /\ ~running
    /\ pc' = "drain"
    /\ UNCHANGED <<term_width, term_height, cells, running, input_rx, lpc,
                   out, screen, hist, build, probe, stdout_buf>>

\* a QUIT arm that only leaves the for loop
DrainQuit_break ==
    /\ pc = "drain"
    /\ input_rx # <<>>
    /\ Head(input_rx) = QUIT
    /\ input_rx' = Tail(input_rx)
    /\ pc' = "top"
    /\ UNCHANGED <<term_width, term_height, cells, running, lpc, out, screen,
                   hist, build, probe, stdout_buf>>

\* run, line 74: QUIT => return
DrainQuit ==
    /\ pc = "drain"
    /\ input_rx # <<>>
    /\ Head(input_rx) = QUIT
    /\ input_rx' = Tail(input_rx)
    /\ pc' = "done"
    /\ UNCHANGED <<term_width, term_height, cells, running, lpc, out, screen,
                   hist, build, probe, stdout_buf>>

\* a PLAYPAUSE taken from the channel wherever the engine is, as if the
\* listener set the flag itself
DrainPlayPause_anytime ==
    /\ pc \notin {"done", "panicked"}
    /\ input_rx # <<>>
    /\ Head(input_rx) = PLAYPAUSE
    /\ input_rx' = Tail(input_rx)
    /\ running' = ~running
    /\ out' = <<>>
    /\ UNCHANGED <<term_width, term_height, cells, pc, lpc, screen, hist,
                   build, probe, stdout_buf>>

\* run, line 75: PLAYPAUSE => running = !running
DrainPlayPause ==
    /\ pc = "drain"
    /\ input_rx # <<>>
    /\ Head(input_rx) = PLAYPAUSE
    /\ input_rx' = Tail(input_rx)
    /\ running' = ~running
    /\ out' = <<>>
    /\ UNCHANGED <<term_width, term_height, cells, pc, lpc, screen, hist,
                   build, probe, stdout_buf>>

\* a DRAW that is dropped while the simulation runs
DrainDraw_only_paused ==
    /\ pc = "drain"
    /\ input_rx # <<>>
    /\ Head(input_rx).type = "DRAW"
    /\ \E r \in {draw(cells, Head(input_rx).x, Head(input_rx).y,
                      term_height, term_width)} :
        /\ r.ok
        /\ cells' = IF running THEN cells ELSE r.cells
        /\ out' = IF running THEN <<>> ELSE r.out
        /\ screen' = Paint(screen, out')
        /\ stdout_buf' = stdout_buf \o out'
    /\ input_rx' = Tail(input_rx)
    /\ UNCHANGED <<term_width, term_height, running, pc, lpc, hist, build,
                   probe>>

\* a drain that goes back to the head of the loop after every DRAW
DrainDraw_one_per_iteration ==
    /\ pc = "drain"
    /\ input_rx # <<>>
    /\ Head(input_rx).type = "DRAW"
    /\ \E r \in {draw(cells, Head(input_rx).x, Head(input_rx).y,
                      term_height, term_width)} :
        /\ r.ok
        /\ cells' = r.cells
        /\ out' = r.out
        /\ screen' = Paint(screen, r.out)
        /\ stdout_buf' = stdout_buf \o r.out
    /\ input_rx' = Tail(input_rx)
    /\ pc' = "top"
    /\ UNCHANGED <<term_width, term_height, running, lpc, hist, build,
                   probe>>

\* a drain that takes the command sent last
DrainDraw_newest ==
    /\ pc = "drain"
    /\ input_rx # <<>>
    /\ input_rx[Len(input_rx)].type = "DRAW"
    /\ \E r \in {draw(cells, input_rx[Len(input_rx)].x,
                      input_rx[Len(input_rx)].y, term_height, term_width)} :
        /\ r.ok
        /\ cells' = r.cells
        /\ out' = r.out
        /\ screen' = Paint(screen, r.out)
        /\ stdout_buf' = stdout_buf \o r.out
    /\ input_rx' = SubSeq(input_rx, 1, Len(input_rx) - 1)
    /\ UNCHANGED <<term_width, term_height, running, pc, lpc, hist, build,
                   probe>>

\* run, lines 76-84: DRAW(x, y) inside the grid
DrainDraw ==
    /\ pc = "drain"
    /\ input_rx # <<>>
    /\ Head(input_rx).type = "DRAW"
    /\ \E r \in {draw(cells, Head(input_rx).x, Head(input_rx).y,
                      term_height, term_width)} :
        /\ r.ok
        /\ cells' = r.cells
        /\ out' = r.out
        /\ screen' = Paint(screen, r.out)
        /\ stdout_buf' = stdout_buf \o r.out
    /\ input_rx' = Tail(input_rx)
    /\ UNCHANGED <<term_width, term_height, running, pc, lpc, hist, build,
                   probe>>

\* run, line 77: DRAW(x, y) outside the grid panics the engine thread
DrainDrawPanic ==
    /\ pc = "drain"
    /\ input_rx # <<>>
    /\ Head(input_rx).type = "DRAW"
    /\ ~draw(cells, Head(input_rx).x, Head(input_rx).y,
             term_height, term_width).ok
    /\ input_rx' = Tail(input_rx)
    /\ pc' = "panicked"
    /\ UNCHANGED <<term_width, term_height, cells, running, lpc, out, screen,
                   hist, build, probe, stdout_buf>>

\* a drain that returns from run once the channel is empty and the sender
\* has been dropped
DrainEmpty_disconnected ==
    /\ pc = "drain"
    /\ input_rx = <<>>
    /\ pc' = IF lpc \in {"stopped", "ended"} THEN "done" ELSE "top"
    /\ UNCHANGED <<term_width, term_height, cells, running, input_rx, lpc,
                   out, screen, hist, build, probe, stdout_buf>>

\* a drain over iter(), which waits for the next command and ends only
\* once the sender is dropped
DrainEmpty_blocking ==
    /\ pc = "drain"
    /\ input_rx = <<>>
    /\ lpc \in {"stopped", "ended"}
    /\ pc' = "top"
    /\ UNCHANGED <<term_width, term_height, cells, running, input_rx, lpc,
                   out, screen, hist, build, probe, stdout_buf>>

\* run, line 72: try_iter finds the channel empty, the for loop ends
DrainEmpty ==
    /\ pc = "drain"
    /\ input_rx = <<>>
    /\ pc' = "top"
    /\ UNCHANGED <<term_width, term_height, cells, running, input_rx, lpc,
                   out, screen, hist, build, probe, stdout_buf>>

\* main, lines 175-177: the space key sends PLAYPAUSE
ListenSpace ==
    /\ lpc = "listening"
    /\ pc \notin {"done", "panicked"}
    /\ Len(input_rx) < MaxQueue
    /\ input_rx' = Append(input_rx, PLAYPAUSE)
    /\ lpc' = "flush"
    /\ UNCHANGED <<term_width, term_height, cells, running, pc, out, screen,
                   hist, build, probe, stdout_buf>>

\* main, lines 179-182: a mouse press or hold at (x, y) sends DRAW(x, y)
ListenMouse ==
    /\ lpc = "listening"
    /\ pc \notin {"done", "panicked"}
    /\ Len(input_rx) < MaxQueue
    /\ \E p \in MousePositions(term_width, term_height) :
          input_rx' = Append(input_rx, DRAW(p[1], p[2]))
    /\ lpc' = "flush"
    /\ UNCHANGED <<term_width, term_height, cells, running, pc, out, screen,
                   hist, build, probe, stdout_buf>>

\* main, lines 184-188: 'q' or Esc sends QUIT and breaks out of the loop
ListenQuit ==
    /\ lpc = "listening"
    /\ pc \notin {"done", "panicked"}
    /\ Len(input_rx) < MaxQueue
    /\ input_rx' = Append(input_rx, QUIT)
    /\ lpc' = "stopped"
    /\ UNCHANGED <<term_width, term_height, cells, running, pc, out, screen,
                   hist, build, probe, stdout_buf>>

\* main, line 190: any other event is ignored
ListenOther ==
    /\ lpc = "listening"
    /\ pc \notin {"done", "panicked"}
    /\ lpc' = "flush"
    /\ UNCHANGED <<term_width, term_height, cells, running, input_rx, pc,
                   out, screen, hist, build, probe, stdout_buf>>

\* main, line 193: stdout.flush() after the event, then the next event
ListenFlush ==
    /\ lpc = "flush"
    /\ pc \notin {"done", "panicked"}
    /\ lpc' = "listening"
    /\ stdout_buf' = <<>>
    /\ UNCHANGED <<term_width, term_height, cells, running, input_rx, pc,
                   out, screen, hist, build, probe>>

\* main, line 172: stdin.events() ends and the thread returns, dropping the
\* sender
ListenEnd ==
    /\ lpc = "listening"
    /\ pc \notin {"done", "panicked"}
    /\ lpc' = "ended"
    /\ UNCHANGED <<term_width, term_height, cells, running, input_rx, pc,
                   out, screen, hist, build, probe, stdout_buf>>

Engine ==
    \/ RunTick
    \/ RunSkip
    \/ DrainQuit
    \/ DrainPlayPause
    \/ DrainDraw
    \/ DrainDrawPanic
    \/ DrainEmpty

Listener ==
    \/ ListenSpace
    \/ ListenMouse
    \/ ListenQuit
    \/ ListenOther
    \/ ListenFlush
    \/ ListenEnd

Next == Engine \/ Listener

Spec == Init /\ [][Next]_vars

\* the engine thread is scheduled again and again: run's loop never sleeps
\* and never waits (try_iter does not block); the listener moves only when
\* input arrives, so nothing forces its steps
SpecFair == InitFair /\ [][Next]_vars /\ WF_vars(Engine)

----------------------------------------------------------------------------
(* The program with a generation step taken in three steps of the engine   *)
(* thread, so that steps of the listener thread fall between them.         *)

\* tick, lines 91-95: the snapshot
TickSnapshot ==
    /\ pc = "top"
    /\ running
    /\ cells' = Snapshot(cells, term_height, term_width)
    /\ out' = <<>>
    /\ pc' = "tick_loop"
    /\ UNCHANGED <<term_width, term_height, running, input_rx, lpc, screen,
                   hist, build, probe, stdout_buf>>

\* tick, lines 97-141: the loops, whose writes go to the buffer of stdout
TickCells ==
    /\ pc = "tick_loop"
    /\ \E r \in {TickLoop(cells, <<>>, 0, term_height, term_width)} :
        /\ cells' = r.cells
        /\ out' = r.out
        /\ screen' = Paint(screen, r.out)
        /\ stdout_buf' = stdout_buf \o r.out
    /\ pc' = "tick_flush"
    /\ UNCHANGED <<term_width, term_height, running, input_rx, lpc, hist,
                   build, probe>>

\* tick, line 143: the flush
TickFlush ==
    /\ pc = "tick_flush"
    /\ out' = Append(out, FlushEv)
    /\ stdout_buf' = <<>>
    /\ pc' = "drain"
    /\ UNCHANGED <<term_width, term_height, cells, running, input_rx, lpc,
                   screen, hist, build, probe>>

EngineSteps ==
    \/ TickSnapshot
    \/ TickCells
    \/ TickFlush
    \/ RunSkip
    \/ DrainQuit
    \/ DrainPlayPause
    \/ DrainDraw
    \/ DrainDrawPanic
    \/ DrainEmpty

InitSteps == InitOn(FairDims)

NextSteps == EngineSteps \/ Listener

SpecSteps == InitSteps /\ [][NextSteps]_vars

----------------------------------------------------------------------------
(* Claims about the program                                                *)

\* C2: after any sequence of main-loop operations from the cleared screen
\* and the all-Dead grid, the glyph last written at (x, y), blank if none,
\* is 'o' exactly when cell [y-1][x-1] is Alive.
C2_ScreenMatchesCells ==
    \A x \in 1 .. term_width, y \in 1 .. term_height :
        screen[<<x, y>>] = Glyph(cells[y - 1][x - 1].state)

\* the engine, running, has just taken a step that wrote two 'o' next to
\* the one a toggle had written
C2_Witness ==
    /\ pc = "drain"
    /\ running
    /\ out # <<>> /\ out[Len(out)] = FlushEv
    /\ Cardinality({n \in WritesOf(out) : out[n].ch = "o"}) = 2
    /\ \A x \in 1 .. term_width : screen[<<x, 1>>] = "o"

QuitIsNext == pc = "drain" /\ input_rx # <<>> /\ Head(input_rx) = QUIT

\* C5: draining Quit returns from the main loop at once, and from then on
\* the running flag, the cells, the issued writes and the queue stay as they
\* were: nothing after Quit is applied.
C5_QuitEndsEverything ==
    [][/\ QuitIsNext => (pc' = "done" /\ UNCHANGED <<running, cells, out, screen>>)
       /\ pc = "done" => UNCHANGED <<pc, running, cells, out, screen, input_rx>>]_vars

\* run has returned on Quit while the simulation was running, with a cell
\* on the screen
C5_Witness ==
    /\ pc = "done"
    /\ running
    /\ \E x \in 1 .. term_width : screen[<<x, 1>>] = "o"

\* the step is an iteration of the main loop that ran a generation step
\* with some effect
TickStep ==
    /\ pc = "top" /\ pc' = "drain"
    /\ ~ UNCHANGED <<cells, out, screen>>

PlayPauseIsNext == pc = "drain" /\ input_rx # <<>> /\ Head(input_rx) = PLAYPAUSE
DrawIsNext == pc = "drain" /\ input_rx # <<>> /\ Head(input_rx).type = "DRAW"

\* C9: the engine starts paused with every cell Dead; running changes only
\* when a TogglePlayback is applied, which inverts it; a generation step runs
\* only in an iteration that begins with running = true, so while paused the
\* cells change only through ToggleCellAt.
C9_PausedUntilToggled ==
    /\ running = FALSE
    /\ \A i \in Rows(term_height), j \in Cols(term_width) :
          cells[i][j] = Cell(DEAD, DEAD)
    /\ [][/\ running' # running =>
               (PlayPauseIsNext /\ input_rx' = Tail(input_rx))
          /\ (PlayPauseIsNext /\ input_rx' = Tail(input_rx)) =>
               running' = ~running
          /\ TickStep => running
          /\ (~running /\ cells' # cells) =>
               (DrawIsNext /\ input_rx' = Tail(input_rx))]_vars

\* the engine, resumed, has just run a step that changed the grid
C9_Witness ==
    /\ running
    /\ pc = "drain"
    /\ out # <<>> /\ out[Len(out)] = FlushEv
    /\ WritesOf(out) # {}

----------------------------------------------------------------------------
(* Claims about output flushing and out-of-range toggles                   *)

\* nothing is left for either thread to do until another input event
\* arrives: the engine is paused and polling an empty channel, the listener
\* waits for its next event or has returned
IdlePaused ==
    /\ ~running
    /\ pc \in {"top", "drain"}
    /\ input_rx = <<>>
    /\ lpc \in {"listening", "ended"}

\* C11: every applied toggle is followed by a flush of its glyph write
\* without a later input event or generation step: once the engine is paused
\* with nothing queued and the listener waits for input, no write is left
\* unflushed in stdout's buffer
C11_ToggleWriteIsFlushed == IdlePaused => stdout_buf = <<>>

OutOfRangeIsNext ==
    /\ DrawIsNext
    /\ ~InRange(Head(input_rx).x, Head(input_rx).y, term_height, term_width)

\* C12: receiving a DRAW outside [1, W] x [1, H] aborts the engine: no cell,
\* no output and not the running flag change with it, and once aborted the
\* engine applies no later command
C12_OutOfRangeToggleIsFatal ==
    [][/\ (OutOfRangeIsNext /\ input_rx' = Tail(input_rx)) =>
            (/\ pc' = "panicked"
             /\ UNCHANGED <<cells, running, out, screen, stdout_buf>>)
       /\ pc = "panicked" =>
            UNCHANGED <<pc, cells, running, out, screen, stdout_buf,
                        input_rx>>]_vars

\* the engine has aborted on a DRAW outside the grid, after an earlier
\* toggle, with a later command still queued
C12_Witness ==
    /\ pc = "panicked"
    /\ \E i \in Rows(term_height), j \in Cols(term_width) :
          cells[i][j].state = ALIVE
    /\ input_rx # <<>>

----------------------------------------------------------------------------
(* Claims about the progress of the main loop                              *)

Ended == pc \in {"done", "panicked"}

\* C13 as stated: unless the engine ends or is paused again and again, it
\* starts generation steps infinitely often
C13_RunningKeepsStepping ==
    \/ []<><<RunTick>>_vars
    \/ []<>(~running)
    \/ <>Ended

\* C13: the loop never waits for input: unless the engine ends, is paused
\* again and again, or commands keep arriving without end (so that the
\* drain keeps finding one), it starts generation steps infinitely often
C13_SteppingWithoutInput ==
    \/ []<><<RunTick>>_vars
    \/ []<>(~running)
    \/ <>Ended
    \/ []<>(input_rx # <<>>)

\* the engine is running, has just finished a step and polls an empty
\* channel while the listener waits for input
C13_Witness ==
    /\ running
    /\ pc = "drain"
    /\ input_rx = <<>>
    /\ lpc = "listening"
    /\ out # <<>> /\ out[Len(out)] = FlushEv

----------------------------------------------------------------------------
(* Claims about toggles and the steps that follow them                     *)

\* the engine starts a generation step
StepStarts == pc = "top" /\ running /\ pc' = "drain"

\* the engine takes a DRAW inside the grid from the channel
ToggleApplied ==
    /\ DrawIsNext
    /\ InRange(Head(input_rx).x, Head(input_rx).y, term_height, term_width)
    /\ input_rx' = Tail(input_rx)

\* C14: a toggle is applied whatever running is, and a generation step
\* snapshots and computes from the states the toggles left: a DRAW taken
\* from the channel inverts its cell and no other, a step sets every
\* old_state to the state before the step and every state by the Life rule
\* on those states, and nothing but a toggle or a step changes a state
C14_ToggleFeedsNextStep ==
    [][/\ ToggleApplied =>
            \A i \in Rows(term_height), j \in Cols(term_width) :
                (cells'[i][j].state # cells[i][j].state)
                    <=> (i = Head(input_rx).y - 1 /\ j = Head(input_rx).x - 1)
       /\ StepStarts =>
            \A i \in Rows(term_height), j \in Cols(term_width) :
                /\ cells'[i][j].old_state = cells[i][j].state
                /\ cells'[i][j].state =
                       LifeRule(cells[i][j].state,
                                ToroidalCount(cells, i, j,
                                              term_height, term_width))
       /\ cells' # cells => (ToggleApplied \/ StepStarts)]_vars

\* a running engine has just finished a step in which a cell that a toggle
\* had set died
C14_Witness ==
    /\ running
    /\ pc = "drain"
    /\ out # <<>> /\ out[Len(out)] = FlushEv
    /\ \E i \in Rows(term_height), j \in Cols(term_width) :
          cells[i][j] = Cell(ALIVE, DEAD)

----------------------------------------------------------------------------
(* Claims about the two threads                                            *)

\* the engine is between the snapshot and the flush of a generation step
InStep == pc \in {"tick_loop", "tick_flush"}

\* the queue q2 is the queue q, possibly with commands added at the back
OnlyGrows(q, q2) ==
    /\ Len(q2) >= Len(q)
    /\ SubSeq(q2, 1, Len(q)) = q

\* C15: only the engine thread changes cells and running, and a generation
\* step is atomic with respect to commands: a step of the listener (the
\* steps that move lpc) leaves cells, running and the engine's position
\* alone, and between a step's snapshot and its flush no command leaves the
\* channel, running keeps its value and cells change only as the step itself
\* moves on, whatever the listener sends meanwhile
C15_StepIsAtomic ==
    [][/\ lpc' # lpc => UNCHANGED <<cells, running, pc>>
       /\ InStep =>
            /\ OnlyGrows(input_rx, input_rx')
            /\ running' = running
            /\ pc' = pc => cells' = cells]_vars

\* the engine is between the loops and the flush of a step that issued
\* writes, the listener has flushed them meanwhile, and a command waits
C15_Witness ==
    /\ pc = "tick_flush"
    /\ out # <<>>
    /\ stdout_buf = <<>>
    /\ input_rx # <<>>

\* what the engine does with command e
Applied(e) ==
    IF e = QUIT THEN pc' = "done" /\ UNCHANGED <<cells, running>>
    ELSE IF e = PLAYPAUSE
    THEN running' = ~running /\ UNCHANGED <<cells, pc>>
    ELSE IF InRange(e.x, e.y, term_height, term_width)
    THEN /\ cells' = [cells EXCEPT ![e.y - 1][e.x - 1].state =
                         IF @ = DEAD THEN ALIVE ELSE DEAD]
         /\ UNCHANGED <<running, pc>>
    ELSE pc' = "panicked" /\ UNCHANGED <<cells, running>>

\* C16: commands are applied in the order they were sent and nothing follows
\* a Quit: the listener adds one command at the back of the channel, the
\* engine takes the command at the front and applies that one, no other
\* step changes the channel, a QUIT is the last command in it, and once the
\* listener has sent QUIT the channel never grows again
C16_FifoAndQuitLast ==
    /\ [](\A k \in 1 .. Len(input_rx) :
            input_rx[k] = QUIT => (k = Len(input_rx) /\ lpc = "stopped"))
    /\ [][/\ Len(input_rx') > Len(input_rx) =>
               /\ Len(input_rx') = Len(input_rx) + 1
               /\ OnlyGrows(input_rx, input_rx')
               /\ lpc = "listening"
               /\ UNCHANGED <<cells, running, pc>>
          /\ Len(input_rx') < Len(input_rx) =>
               /\ input_rx' = Tail(input_rx)
               /\ Applied(Head(input_rx))
          /\ Len(input_rx') = Len(input_rx) => input_rx' = input_rx
          /\ lpc = "stopped" =>
               (lpc' = "stopped" /\ Len(input_rx') <= Len(input_rx))]_vars

\* the listener has stopped after QUIT, which waits behind a DRAW that the
\* running engine is about to apply
C16_Witness ==
    /\ lpc = "stopped"
    /\ pc = "drain"
    /\ running
    /\ Len(input_rx) = 2
    /\ input_rx[1].type = "DRAW"
    /\ input_rx[2] = QUIT

\* C17 as stated: once the listener has returned without sending QUIT the
\* main loop is still running
C17_LoopOutlivesListener == lpc = "ended" => pc \in {"top", "drain"}

\* C17: only a drained QUIT makes run return: run returns in no other step,
\* never once the listener has returned without sending QUIT, and from then
\* on the engine keeps going round its loop unless a DRAW outside the grid
\* aborts it
C17_OnlyQuitReturns ==
    /\ [][(pc' = "done" /\ pc # "done") =>
             (QuitIsNext /\ input_rx' = Tail(input_rx))]_vars
    /\ [](lpc = "ended" => pc # "done")
    /\ (lpc = "ended" /\ pc = "top") ~> (pc = "drain")
    /\ (lpc = "ended" /\ pc = "drain") ~> (pc = "top" \/ pc = "panicked")

\* the listener has returned without QUIT and the running engine, back at
\* the head of its loop after a step, polls an empty channel
C17_Witness ==
    /\ lpc = "ended"
    /\ pc = "top"
    /\ running
    /\ input_rx = <<>>
    /\ out # <<>> /\ out[Len(out)] = FlushEv

QuitQueued == \E k \in 1 .. Len(input_rx) : input_rx[k] = QUIT

\* C19: once QUIT is in the channel the engine ends, and starts at most
\* one more generation step first: a step starts only at the head of the
\* loop, and from the drain the engine does not come back to the head
C19_QuitTerminates ==
    /\ QuitQueued ~> Ended
    /\ [][QuitQueued =>
             /\ StepStarts => pc = "top"
             /\ pc = "drain" => pc' \in {"drain", "done", "panicked"}]_vars

\* run has returned straight after a generation step: the drain that
\* followed the step found QUIT first
C19_Witness ==
    /\ pc = "done"
    /\ running
    /\ out # <<>> /\ out[Len(out)] = FlushEv

----------------------------------------------------------------------------
(* Claims about old_state and the neighbour positions                      *)

\* the state fields of grid g
States(g) == [i \in DOMAIN g |-> [j \in DOMAIN g[i] |-> g[i][j].state]]

\* the grids that agree with g on every state, with any old_state
OldVariants(g) ==
    {[i \in DOMAIN g |-> [j \in DOMAIN g[i] |-> Cell(o[i][j], g[i][j].state)]] :
        o \in [DOMAIN g -> [DOMAIN g[0] -> CellState]]}

\* operation e of the history applied to grid g
Replay(e, g) ==
    IF e.op = "tick" THEN tick(g, term_height, term_width)
    ELSE draw(g, e.x, e.y, term_height, term_width)

\* C18: old_state carries nothing from one operation to the next: the
\* latest step or toggle, applied instead to any grid with the same states
\* and other old_states, issues the same output and leaves the same states
C18_OldStateNeverRead ==
    hist # <<>> =>
        LET e == hist[Len(hist)]
        IN  \A g \in OldVariants(e.before) :
                LET r == Replay(e, g)
                IN  /\ r.out = e.out
                    /\ States(r.cells) = States(cells)

\* a step that wrote, taken on a grid whose old_state differs from its
\* state in a cell
C18_Witness ==
    \E k \in TickEntries :
        /\ WritesOf(hist[k].out) # {}
        /\ \E i \in Rows(term_height), j \in Cols(term_width) :
              hist[k].before[i][j] = Cell(ALIVE, DEAD)

\* the 8 positions tick reads for the probed cell, in the order of lines
\* 105-128
Reads(p) ==
    << <<p.up.val, p.left.val>>, <<p.up.val, p.j>>, <<p.up.val, p.right.val>>,
       <<p.i, p.left.val>>, <<p.i, p.right.val>>,
       <<p.down.val, p.left.val>>, <<p.down.val, p.j>>,
       <<p.down.val, p.right.val>> >>

\* C20: on every grid of at least 3 rows and 3 columns the 8 positions read
\* for a cell (when all 8 reads take place) are pairwise distinct and none
\* is the cell itself
C20_NeighboursDistinct ==
    \A n \in 1 .. Len(probe) :
        LET p == probe[n]
        IN  (/\ term_height >= 3 /\ term_width >= 3
             /\ IndexOk(p.up, term_height) /\ IndexOk(p.down, term_height)
             /\ IndexOk(p.left, term_width) /\ IndexOk(p.right, term_width))
            => /\ Cardinality({Reads(p)[k] : k \in 1 .. 8}) = 8
               /\ \A k \in 1 .. 8 : Reads(p)[k] # <<p.i, p.j>>

\* the same statement for the sizes up to 16384, where it holds
C20_DistinctUpTo16384 ==
    (term_width <= 16384 /\ term_height <= 16384) => C20_NeighboursDistinct

====
